---- MODULE Spec2Model ----
(***************************************************************************)
(* Model of picker (src/src/main.rs): the randomized greedy room pairing.  *)
(* People are the integers 1..n (the keys of config.unpreferred); a        *)
(* Vec<String> of the configuration is read only through contains(), so it *)
(* is modelled as the set of its elements.  The pool, the candidate lists  *)
(* and the rooms are sequences, as in the code.                            *)
(***************************************************************************)
EXTENDS Integers, Sequences, FiniteSets

\* ------------------------------------------------------------------ bounds
MaxPeople == 4
MaxPrefEdges == 2
MaxUnprefEdges == 2
MaxMissing == 1
MaxTrials == 2

VARIABLES
    config_solutions,    \* config.settings.solutions (i64)
    config_preferred,    \* config.preferred: person -> set of people
    config_unpreferred,  \* config.unpreferred: person -> set of people
    pc,                  \* position of the run
    i,                   \* generate_solutions: trials completed so far
    result,              \* generate_solutions: the Vec<Solution> being built
    people,              \* solve: the pool
    rooms,               \* solve: the pairing built so far
    preferred,           \* solve: counter
    accepted,            \* solve: counter
    unpreferred,         \* solve: counter
    generated,           \* what generate_solutions returned to main
    selected,            \* what main handed to display_result
    err                  \* the error main returned, "none" if none

vars == <<config_solutions, config_preferred, config_unpreferred, pc, i, result,
          people, rooms, preferred, accepted, unpreferred, generated, selected, err>>

config == <<config_solutions, config_preferred, config_unpreferred>>
locals == <<people, rooms, preferred, accepted, unpreferred>>

\* ----------------------------------------------------------------- helpers
None == [some |-> FALSE]
Some(v) == [some |-> TRUE, val |-> v]

Range(s) == {s[k] : k \in 1..Len(s)}

RECURSIVE SubsetsUpTo(_, _)
SubsetsUpTo(S, k) ==
    IF k = 0 THEN {{}}
    ELSE LET smaller == SubsetsUpTo(S, k - 1)
         IN  smaller \cup {T \cup {x} : T \in smaller, x \in S}

Permutations(S) ==
    {s \in [1..Cardinality(S) -> S] : \A x \in S : \E k \in 1..Cardinality(S) : s[k] = x}

Remove(s, k) == SubSeq(s, 1, k - 1) \o SubSeq(s, k + 1, Len(s))

\* HashMap<String, Vec<String>> with the given keys, holding the edges E
Relation(keys, E) == [p \in keys |-> {q \in 1..MaxPeople : <<p, q>> \in E}]

\* --------------------------------------------------------- tier classifier
\* mutant: config.preferred.get(a)? hoisted out of the loop over the pool
get_preferred_people_hoisted(a, pool) ==
    IF a \notin DOMAIN config_preferred
       \/ \E k \in 1..Len(pool) : pool[k] \notin DOMAIN config_preferred
    THEN None
    ELSE Some(SelectSeq(pool, LAMBDA b :
                  b \in config_preferred[a] /\ a \in config_preferred[b]))

\* mutant: a missing entry read as an empty list (unwrap_or_default)
get_preferred_people_default(a, pool) ==
    LET get(p) == IF p \in DOMAIN config_preferred THEN config_preferred[p] ELSE {}
    IN  Some(SelectSeq(pool, LAMBDA b : b \in get(a) /\ a \in get(b)))

\* mutant: a one-sided preference is enough (|| for &&)
get_preferred_people_one_sided(a, pool) ==
    IF \E k \in 1..Len(pool) :
           a \notin DOMAIN config_preferred \/ pool[k] \notin DOMAIN config_preferred
    THEN None
    ELSE Some(SelectSeq(pool, LAMBDA b :
                  b \in config_preferred[a] \/ a \in config_preferred[b]))

\* get_preferred_people: None as soon as a `?` meets a missing key
get_preferred_people(a, pool) ==
    IF \E k \in 1..Len(pool) :
           a \notin DOMAIN config_preferred \/ pool[k] \notin DOMAIN config_preferred
    THEN None
    ELSE Some(SelectSeq(pool, LAMBDA b :
                  b \in config_preferred[a] /\ a \in config_preferred[b]))

\* mutant: one side not objecting is enough (|| for &&)
get_accepted_people_either(a, pool) ==
    IF \E k \in 1..Len(pool) :
           a \notin DOMAIN config_unpreferred \/ pool[k] \notin DOMAIN config_unpreferred
    THEN None
    ELSE Some(SelectSeq(pool, LAMBDA b :
                  ~(b \in config_unpreferred[a]) \/ ~(a \in config_unpreferred[b])))

\* get_accepted_people
get_accepted_people(a, pool) ==
    IF \E k \in 1..Len(pool) :
           a \notin DOMAIN config_unpreferred \/ pool[k] \notin DOMAIN config_unpreferred
    THEN None
    ELSE Some(SelectSeq(pool, LAMBDA b :
                  ~(b \in config_unpreferred[a]) /\ ~(a \in config_unpreferred[b])))

\* find_index: position of the first element equal to item
find_index(item, array) ==
    IF \E k \in 1..Len(array) : array[k] = item
    THEN [ok |-> TRUE,
          val |-> CHOOSE k \in 1..Len(array) :
                      array[k] = item /\ \A j \in 1..(k - 1) : array[j] # item]
    ELSE [ok |-> FALSE, err |-> "find_index"]

\* mutant: the chosen person is read from the pool but left in it
choose_person_keep(list, index_list, k) ==
    IF list = <<>>
    THEN [ok |-> FALSE, err |-> "choose_person"]
    ELSE LET index == find_index(list[k], index_list)
         IN  IF ~index.ok
             THEN [ok |-> FALSE, err |-> index.err]
             ELSE [ok |-> TRUE,
                   person |-> index_list[index.val],
                   index_list |-> index_list]

\* choose_person: list.choose(rng) picked position k of list
choose_person(list, index_list, k) ==
    IF list = <<>>
    THEN [ok |-> FALSE, err |-> "choose_person"]
    ELSE LET index == find_index(list[k], index_list)
         IN  IF ~index.ok
             THEN [ok |-> FALSE, err |-> index.err]
             ELSE [ok |-> TRUE,
                   person |-> index_list[index.val],
                   index_list |-> Remove(index_list, index.val)]

\* ------------------------------------------------------------------- solve
\* mutant: the accepted branch tested before the preferred one
tier_of_accepted_first(preferred_people, accepted_people) ==
    IF accepted_people # <<>> THEN "accepted"
    ELSE IF preferred_people # <<>> THEN "preferred"
    ELSE "unpreferred"

\* the if / else-if / else chain of the loop body: which counter the match
\* goes to
tier_of(preferred_people, accepted_people) ==
    IF preferred_people # <<>> THEN "preferred"
    ELSE IF accepted_people # <<>> THEN "accepted"
    ELSE "unpreferred"

\* the list choose_person is given in that branch
list_of(tier, preferred_people, accepted_people, rest) ==
    IF tier = "preferred" THEN preferred_people
    ELSE IF tier = "accepted" THEN accepted_people
    ELSE rest

\* pop, then the two classifier calls with their `?`
classify(pool) ==
    LET person == pool[Len(pool)]
        rest == SubSeq(pool, 1, Len(pool) - 1)
        preferred_people == get_preferred_people(person, rest)
        accepted_people == get_accepted_people(person, rest)
    IN  IF ~preferred_people.some
        THEN [ok |-> FALSE, err |-> "preferred_people"]
        ELSE IF ~accepted_people.some
        THEN [ok |-> FALSE, err |-> "accepted_people"]
        ELSE LET tier == tier_of(preferred_people.val, accepted_people.val)
             IN  [ok |-> TRUE, person |-> person, rest |-> rest, tier |-> tier,
                  list |-> list_of(tier, preferred_people.val,
                                   accepted_people.val, rest)]

\* the positions list.choose(rng) can pick (one dummy when the list is empty)
Choices(pool) ==
    LET c == classify(pool)
    IN  IF c.ok /\ c.list # <<>> THEN 1..Len(c.list) ELSE {1}

\* one pass of the while-let body for the pool before the pop
iteration(pool, k) ==
    LET c == classify(pool)
    IN  IF ~c.ok THEN c
        ELSE LET chosen == choose_person(c.list, c.rest, k)
             IN  IF ~chosen.ok
                 THEN [ok |-> FALSE, err |-> chosen.err]
                 ELSE [ok |-> TRUE, tier |-> c.tier,
                       room |-> <<c.person, chosen.person>>,
                       people |-> chosen.index_list]

\* mutant: the accepted branch forgets its counter
increment_not_accepted(counter, which, tier) ==
    IF tier = which /\ which # "accepted" THEN counter + 1 ELSE counter

\* `counter += 1` in the branch of its own tier
increment(counter, which, tier) == IF tier = which THEN counter + 1 ELSE counter

Solution == [rooms |-> rooms, preferred |-> preferred,
             accepted |-> accepted, unpreferred |-> unpreferred]

\* mutant: the inclusive range 0..=config.settings.solutions
MoreTrials_inclusive == i <= config_solutions

\* generate_solutions: the range 0..config.settings.solutions has a trial left
MoreTrials == i < config_solutions

\* generate_solutions calls solve: locals initialised, the pool shuffled
SolveBegin ==
    /\ pc = "generate"
    /\ MoreTrials
    /\ \E order \in Permutations(DOMAIN config_unpreferred) :
           people' = order
    /\ rooms' = <<>>
    /\ preferred' = 0
    /\ accepted' = 0
    /\ unpreferred' = 0
    /\ pc' = "solve"
    /\ UNCHANGED <<config, i, result, generated, selected, err>>

Match(tier) ==
    /\ pc = "solve"
    /\ people # <<>>
    /\ \E k \in Choices(people) :
           LET it == iteration(people, k)
           IN  /\ it.ok
               /\ it.tier = tier
               /\ people' = it.people
               /\ rooms' = Append(rooms, it.room)
    /\ preferred' = increment(preferred, "preferred", tier)
    /\ accepted' = increment(accepted, "accepted", tier)
    /\ unpreferred' = increment(unpreferred, "unpreferred", tier)
    /\ UNCHANGED <<config, pc, i, result, generated, selected, err>>

\* line 101-104
MatchPreferred == pc = "solve" /\ Match("preferred")
\* line 105-108
MatchAccepted == pc = "solve" /\ Match("accepted")
\* line 109-112
MatchUnpreferred == pc = "solve" /\ Match("unpreferred")

\* a `?` in solve: the error goes through generate_solutions (which drops
\* its Vec) to main, which returns it
SolveFail ==
    /\ pc = "solve"
    /\ people # <<>>
    /\ \E k \in Choices(people) :
           LET it == iteration(people, k)
           IN  /\ ~it.ok
               /\ err' = it.err
    /\ generated' = [ok |-> FALSE]
    /\ pc' = "error"
    /\ UNCHANGED <<config, i, result, locals, selected>>

\* the pool is empty: Ok(Solution), pushed by generate_solutions
SolveReturn ==
    /\ pc = "solve"
    /\ people = <<>>
    /\ result' = Append(result, Solution)
    /\ i' = i + 1
    /\ pc' = "generate"
    /\ UNCHANGED <<config, locals, generated, selected, err>>

GenerateReturn ==
    /\ pc = "generate"
    /\ ~MoreTrials
    /\ generated' = [ok |-> TRUE, val |-> result]
    /\ pc' = "rank"
    /\ UNCHANGED <<config, i, result, locals, selected, err>>

\* ------------------------------------------------------------------ ranker
Min(S) == CHOOSE x \in S : \A y \in S : x <= y
Max(S) == CHOOSE x \in S : \A y \in S : x >= y

\* mutant: max where min is meant
iter_min_is_max(s) == IF s = <<>> THEN None ELSE Some(Max(Range(s)))

\* Iterator::min / Iterator::max / SliceRandom::choose give an Option
iter_min(s) == IF s = <<>> THEN None ELSE Some(Min(Range(s)))
iter_max(s) == IF s = <<>> THEN None ELSE Some(Max(Range(s)))
choose(s, k) == IF s = <<>> THEN None ELSE Some(s[k])

\* mutant: unwrap_or_default
unwrap_or_default(opt) ==
    IF opt.some THEN [panic |-> FALSE, val |-> opt.val]
    ELSE [panic |-> FALSE, val |-> 0]

\* Option::unwrap
unwrap(opt) ==
    IF opt.some THEN [panic |-> FALSE, val |-> opt.val] ELSE [panic |-> TRUE]

\* .iter().map(|x| x.unpreferred) and .iter().map(|x| x.preferred)
map_unpreferred(s) == [k \in 1..Len(s) |-> s[k].unpreferred]
map_preferred(s) == [k \in 1..Len(s) |-> s[k].preferred]

filter_unpreferred(s, m) == SelectSeq(s, LAMBDA x : x.unpreferred = m)
filter_preferred(s, m) == SelectSeq(s, LAMBDA x : x.preferred = m)

\* main, lines 163-173: the two filters
optimal_solutions(solutions) ==
    LET min_unpreferred == unwrap(iter_min(map_unpreferred(solutions)))
    IN  IF min_unpreferred.panic THEN [panic |-> TRUE]
        ELSE LET survivors == filter_unpreferred(solutions, min_unpreferred.val)
                 max_preferred == unwrap(iter_max(map_preferred(survivors)))
             IN  IF max_preferred.panic THEN [panic |-> TRUE]
                 ELSE [panic |-> FALSE,
                       val |-> filter_preferred(survivors, max_preferred.val)]

\* main, line 182: solutions.choose(&mut rng).unwrap(), choose picking k
display_argument(solutions, k) ==
    LET optimal == optimal_solutions(solutions)
    IN  IF optimal.panic THEN optimal ELSE unwrap(choose(optimal.val, k))

RankChoices(solutions) ==
    LET optimal == optimal_solutions(solutions)
    IN  IF ~optimal.panic /\ optimal.val # <<>> THEN 1..Len(optimal.val) ELSE {1}

RankSelect ==
    /\ pc = "rank"
    /\ \E k \in RankChoices(generated.val) :
           LET shown == display_argument(generated.val, k)
           IN  /\ ~shown.panic
               /\ selected' = Some(shown.val)
    /\ pc' = "done"
    /\ UNCHANGED <<config, i, result, locals, generated, err>>

RankPanic ==
    /\ pc = "rank"
    /\ \E k \in RankChoices(generated.val) :
           display_argument(generated.val, k).panic
    /\ pc' = "panic"
    /\ UNCHANGED <<config, i, result, locals, generated, selected, err>>

\* -------------------------------------------------------------------- spec
\* the flags one person can give another
Pairs(n) == {e \in (1..n) \X (1..n) : e[1] # e[2]}

\* the ranker reads the counters only: flags between the first two people
\* already give trials whose counters differ
RankPairs(n) == {e \in Pairs(n) : e[1] <= 2 /\ e[2] <= 2}

Start ==
    /\ pc = "generate"
    /\ i = 0
    /\ result = <<>>
    /\ people = <<>>
    /\ rooms = <<>>
    /\ preferred = 0
    /\ accepted = 0
    /\ unpreferred = 0
    /\ generated = None
    /\ selected = None
    /\ err = "none"

Init ==
    /\ \E n \in 0..MaxPeople :
         /\ \E missing \in SubsetsUpTo(1..n, MaxMissing),
               E \in SubsetsUpTo(Pairs(n), MaxPrefEdges) :
                config_preferred = Relation((1..n) \ missing, E)
         /\ \E E \in SubsetsUpTo(Pairs(n), MaxUnprefEdges) \cup {Pairs(n)} :
                config_unpreferred = Relation(1..n, E)
    /\ config_solutions \in {-1, 0, 1}
    /\ Start

Next ==
    \/ SolveBegin
    \/ MatchPreferred
    \/ MatchAccepted
    \/ MatchUnpreferred
    \/ SolveFail
    \/ SolveReturn
    \/ GenerateReturn
    \/ RankSelect
    \/ RankPanic

Spec == Init /\ [][Next]_vars

\* the same program, more trials over fewer configurations
InitRank ==
    /\ \E n \in 0..MaxPeople :
         /\ \E missing \in SubsetsUpTo(1..n, MaxMissing),
               E \in SUBSET RankPairs(n) :
                config_preferred = Relation((1..n) \ missing, E)
         /\ \E E \in SUBSET RankPairs(n) :
                config_unpreferred = Relation(1..n, E)
    /\ config_solutions \in -1..MaxTrials
    /\ Start

SpecRank == InitRank /\ [][Next]_vars

\* ------------------------------------------------------------------ claims
Universe == DOMAIN config_unpreferred
Complete == Universe \subseteq DOMAIN config_preferred
Even == Cardinality(Universe) % 2 = 0

MutuallyPreferred(x, y) == y \in config_preferred[x] /\ x \in config_preferred[y]
MutuallyAccepted(x, y) == y \notin config_unpreferred[x] /\ x \notin config_unpreferred[y]

\* how often person p occurs in the pairing r, on either side
Occurrences(r, p) == Cardinality({<<j, side>> \in (1..Len(r)) \X {1, 2} : r[j][side] = p})

PerfectPairing(r) ==
    /\ Len(r) * 2 = Cardinality(Universe)
    /\ \A p \in Universe : Occurrences(r, p) = 1
    /\ \A j \in 1..Len(r) : r[j][1] # r[j][2]

Returned == pc \in {"rank", "done", "panic"}

\* C1: with an even number of people, each with an entry in both relations,
\* solve never fails and every Solution it returns pairs each person exactly
\* once, nobody with themselves, in |people|/2 pairs
C1_PerfectPairing ==
    (Even /\ Complete) =>
        /\ pc # "error"
        /\ err = "none"
        /\ \A k \in 1..Len(result) : PerfectPairing(result[k].rooms)

C1_Witness ==
    /\ Even /\ Complete
    /\ Cardinality(Universe) = 4
    /\ Len(result) = 1

\* C6: preferred + accepted + unpreferred is the number of pairs, after every
\* iteration of the loop and in every Solution returned
C6_CountersSum ==
    /\ preferred + accepted + unpreferred = Len(rooms)
    /\ \A k \in 1..Len(result) :
           result[k].preferred + result[k].accepted + result[k].unpreferred
               = Len(result[k].rooms)

C6_Witness ==
    /\ pc = "solve"
    /\ people # <<>>
    /\ accepted = 1
    /\ Len(rooms) = 1

\* C8: each iteration pairs the person popped from the end of the pool with a
\* member of the remaining pool, which leaves the pool: a mutually preferred
\* one if there is any (counted preferred); else a mutually accepted one if
\* there is any (counted accepted); else anyone left (counted unpreferred)
C8_Priority ==
    [][(pc = "solve" /\ Len(rooms') = Len(rooms) + 1) =>
         LET a == people[Len(people)]
             rest == SubSeq(people, 1, Len(people) - 1)
             b == rooms'[Len(rooms')][2]
             MP == {x \in Range(rest) : MutuallyPreferred(a, x)}
             MA == {x \in Range(rest) : MutuallyAccepted(a, x)}
         IN  /\ rooms' = Append(rooms, <<a, b>>)
             /\ b \in Range(rest)
             /\ Range(people') = Range(rest) \ {b}
             /\ Len(people') = Len(rest) - 1
             /\ IF MP # {}
                THEN b \in MP /\ <<preferred', accepted', unpreferred'>>
                                  = <<preferred + 1, accepted, unpreferred>>
                ELSE IF MA # {}
                THEN b \in MA /\ <<preferred', accepted', unpreferred'>>
                                  = <<preferred, accepted + 1, unpreferred>>
                ELSE <<preferred', accepted', unpreferred'>>
                         = <<preferred, accepted, unpreferred + 1>>]_vars

\* a trial that made a preferred match first and a fallback match after it
C8_Witness ==
    /\ pc = "solve"
    /\ Len(rooms) = 2
    /\ preferred = 1
    /\ unpreferred = 1

\* C9 as stated: no candidate is in both lists computed for a
C9_Disjoint ==
    (pc = "solve" /\ people # <<>>) =>
        LET a == people[Len(people)]
            rest == SubSeq(people, 1, Len(people) - 1)
            pl == get_preferred_people(a, rest)
            al == get_accepted_people(a, rest)
        IN  (pl.some /\ al.some) => Range(pl.val) \cap Range(al.val) = {}

\* C9 amended: the two lists are computed independently; a candidate b is in
\* both exactly when a and b prefer each other and neither lists the other as
\* unpreferred, and each list holds a candidate at most once
C9_Overlap ==
    (pc = "solve" /\ people # <<>>) =>
        LET a == people[Len(people)]
            rest == SubSeq(people, 1, Len(people) - 1)
            pl == get_preferred_people(a, rest)
            al == get_accepted_people(a, rest)
            count(s, b) == Cardinality({k \in 1..Len(s) : s[k] = b})
        IN  (pl.some /\ al.some) =>
                \A b \in Range(rest) :
                    /\ (b \in Range(pl.val) /\ b \in Range(al.val))
                           <=> (MutuallyPreferred(a, b) /\ MutuallyAccepted(a, b))
                    /\ count(pl.val, b) <= 1
                    /\ count(al.val, b) <= 1

C9_Witness ==
    /\ pc = "solve"
    /\ Len(people) = 4
    /\ LET a == people[4]
           rest == SubSeq(people, 1, 3)
           pl == get_preferred_people(a, rest)
           al == get_accepted_people(a, rest)
       IN  /\ pl.some /\ al.some
           /\ Range(pl.val) \cap Range(al.val) # {}
           /\ Range(pl.val) # Range(al.val)

\* C10: in every Solution returned, preferred counts the mutually preferred
\* pairs, accepted the other pairs in which neither lists the other as
\* unpreferred, unpreferred the other pairs in which one does; so with
\* everybody unpreferring everybody and no mutual preference, unpreferred is
\* the number of pairs
PairsWhere(r, P(_, _)) == Cardinality({j \in 1..Len(r) : P(r[j][1], r[j][2])})
IsPreferredPair(x, y) == MutuallyPreferred(x, y)
IsAcceptedPair(x, y) == ~MutuallyPreferred(x, y) /\ MutuallyAccepted(x, y)
IsUnpreferredPair(x, y) == ~MutuallyPreferred(x, y) /\ ~MutuallyAccepted(x, y)
AllUnpreferred ==
    /\ \A x, y \in Universe : x # y => y \in config_unpreferred[x]
    /\ \A x, y \in Universe : x # y => ~MutuallyPreferred(x, y)

C10_CountersClassify ==
    \A k \in 1..Len(result) :
        LET s == result[k]
        IN  /\ s.preferred = PairsWhere(s.rooms, IsPreferredPair)
            /\ s.accepted = PairsWhere(s.rooms, IsAcceptedPair)
            /\ s.unpreferred = PairsWhere(s.rooms, IsUnpreferredPair)
            /\ (Complete /\ AllUnpreferred) =>
                   /\ s.unpreferred = Len(s.rooms)
                   /\ s.preferred = 0
                   /\ s.accepted = 0

C10_Witness ==
    /\ Len(result) = 1
    /\ Cardinality(Universe) = 4
    /\ Complete /\ AllUnpreferred
    /\ result[1].unpreferred = 2

\* C3 as stated: an odd number of people always ends in the pool-exhaustion
\* error and never in a Solution
C3_OddPoolExhaustion ==
    ~Even =>
        /\ result = <<>>
        /\ (pc = "solve" => people # <<>>)
        /\ (pc = "error" => err = "choose_person")

\* C3 amended: an odd number of people never gives a Solution; the error is
\* the pool exhaustion when every person has an entry in preferred or there
\* is just one person, and the missing-data error otherwise
C3_OddFails ==
    ~Even =>
        /\ result = <<>>
        /\ (pc = "solve" => people # <<>>)
        /\ (pc = "error" =>
               err = IF Complete \/ Cardinality(Universe) = 1
                     THEN "choose_person" ELSE "preferred_people")

C3_Witness ==
    /\ Cardinality(Universe) = 3
    /\ Complete
    /\ pc = "error"
    /\ err = "choose_person"
    /\ Len(rooms) = 1

\* C4 as stated: a person without an entry in preferred makes solve fail with
\* the missing-data error
C4_MissingData ==
    ~Complete =>
        /\ result = <<>>
        /\ (pc = "solve" => people # <<>>)
        /\ (pc = "error" => err = "preferred_people")

\* C4 amended: when there are at least two people and one of them has no
\* entry in preferred, solve fails in its first iteration with the
\* missing-data error, no pair made; a single person without an entry gives
\* the pool-exhaustion error instead
C4_MissingDataOfTwo ==
    ~Complete =>
        /\ result = <<>>
        /\ rooms = <<>>
        /\ (pc = "solve" => Len(people) = Cardinality(Universe))
        /\ (pc = "error" =>
               err = IF Cardinality(Universe) >= 2
                     THEN "preferred_people" ELSE "choose_person")

C4_Witness ==
    /\ ~Complete
    /\ Cardinality(Universe) = 4
    /\ pc = "error"
    /\ err = "preferred_people"

\* C5 as stated: generate_solutions returns exactly N Solutions or the
\* failure of the first failing trial
C5_ExactlyN ==
    /\ Returned => (generated.ok /\ Len(generated.val) = config_solutions)
    /\ pc = "error" => ~generated.ok

\* C5 amended: generate_solutions returns exactly N Solutions when N >= 0 and
\* none when N < 0, each pushed by a solve that ran to the end of its pool,
\* or, as soon as one trial fails, that failure and no Solutions, after which
\* nothing more runs
NonNegative(n) == IF n < 0 THEN 0 ELSE n
C5_GenerateAll ==
    /\ [](Returned => (generated.ok /\ generated.val = result
                         /\ Len(result) = NonNegative(config_solutions)))
    /\ [](pc = "error" => (~generated.ok /\ DOMAIN generated = {"ok"}
                              /\ Len(result) = i /\ i < config_solutions))
    /\ [][result' # result =>
             (pc = "solve" /\ people = <<>> /\ result' = Append(result, Solution))]_vars
    /\ [][pc # "error"]_vars

C5_Witness ==
    /\ pc = "rank"
    /\ config_solutions = 2
    /\ Len(generated.val) = 2
    /\ Cardinality(Universe) = 4

\* C2: the solution shown is one of the generated ones, none has a lower
\* unpreferred count, and none of those with the same unpreferred count has a
\* higher preferred count
C2_RankingMonotone ==
    pc = "done" =>
        /\ selected.some
        /\ selected.val \in Range(generated.val)
        /\ \A s \in Range(generated.val) :
               /\ selected.val.unpreferred <= s.unpreferred
               /\ s.unpreferred = selected.val.unpreferred
                      => selected.val.preferred >= s.preferred

\* two solutions tied on unpreferred, the one with more preferred shown
C2_Witness ==
    /\ pc = "done"
    /\ \E s \in Range(generated.val) :
           /\ s.unpreferred = selected.val.unpreferred
           /\ s.preferred < selected.val.preferred

\* C7: ranking an empty Solution Set (a trial count of 0 or less) stops the
\* run in a panic: nothing is selected or shown
C7_EmptyPanics ==
    /\ [](Returned /\ config_solutions <= 0 => generated.val = <<>>)
    /\ [](pc = "done" => (generated.val # <<>> /\ selected.val \in Range(generated.val)))
    /\ [](pc = "panic" => (generated.val = <<>> /\ selected = None))
    /\ [][(pc = "rank" /\ generated.val = <<>>) => pc' = "panic"]_vars

C7_Witness ==
    /\ pc = "panic"
    /\ config_solutions <= 0
    /\ generated.val = <<>>

====
